---- MODULE Spec2Model ----
(***************************************************************************)
(* The user store of quickshare (src/db/rdb/sqlite/users.go): a t_user     *)
(* table behind one sync.RWMutex.  Every caller (goroutine) issues one     *)
(* store operation; an operation is a sequence of steps: the guard calls   *)
(* and the storage calls of its handler.                                   *)
(***************************************************************************)
EXTENDS Integers, Sequences, FiniteSets, TLC

\* ------------------------------------------------------------------ bounds
\* Number of concurrent callers (goroutines), each issuing one operation.
NumProcs == 3
\* Width, in bits, of the model's signed integers; int64 arithmetic is
\* modelled as two's complement arithmetic of this width.
IntBits == 3

Procs == 1 .. NumProcs
NoProc == 0
\* The callers of the general specification; the others stay idle in it.
Callers == {1, 2}

\* ----------------------------------------------------------- int64 values
MinInt == -(2 ^ (IntBits - 1))
MaxInt == (2 ^ (IntBits - 1)) - 1
\* Go's wrapping signed arithmetic on the mathematical result x.
Wrap(x) == ((x - MinInt) % (2 ^ IntBits)) + MinInt

\* ------------------------------------------------------------ input values
IDs == {1, 2}
Names == {"a", "b"}
\* capacity arguments of SetUsed
Amounts == {MinInt, -1, 1, 2, MaxInt}
\* used arguments of ResetUsed
ResetValues == {MinInt, 0, MaxInt}

\* db.Quota and db.Preferences values (package db)
QuotaOf(limit) == [SpaceLimit |-> limit]
\* setUsed's gotUser before getUser has run
NoUser == [ID |-> 0]

\* The user the store holds at the start (when it holds one).
FirstUser == [ID |-> 1, Name |-> "a", Pwd |-> "x", Role |-> "user", UsedSpace |-> 0,
              Quota |-> QuotaOf(NumProcs - 1), Preferences |-> "P1"]
\* The users handed to AddUser: a second valid user; users colliding with the
\* first in ID or Name; a user with an empty name.
NewUsers ==
    { [FirstUser EXCEPT !.ID = 2, !.Name = "b"],
      [FirstUser EXCEPT !.Name = "b"],
      [FirstUser EXCEPT !.ID = 2],
      [FirstUser EXCEPT !.ID = 2, !.Name = ""] }

\* ------------------------------------------------------------------- codec
\* json.Marshal / json.Unmarshal of the structured columns: the text stored in
\* the quota and preference columns is a value of its own kind, not the struct.
MarshalQuota(q) == [json |-> "quota", spaceLimit |-> q.SpaceLimit]
UnmarshalQuota(s) ==
    IF s.json = "quota"
    THEN [err |-> "nil", v |-> QuotaOf(s.spaceLimit)]
    ELSE [err |-> "DecodeError", v |-> QuotaOf(0)]
MarshalPreferences(x) == [json |-> "preferences", text |-> IF x = "nil" THEN "null" ELSE x]
UnmarshalPreferences(s) ==
    IF s.json = "preferences"
    THEN [err |-> "nil", v |-> IF s.text = "null" THEN "nil" ELSE s.text]
    ELSE [err |-> "DecodeError", v |-> "nil"]

\* fmt.Sprint of a uint64 ID
Sprint(id) == CASE id = 1 -> "1" [] id = 2 -> "2" [] OTHER -> "0"

\* -------------------------------------------------------------------- state
VARIABLES
    t_user,      \* the t_user table: stored id -> row
    mtxW,        \* st.mtx: the writer that owns the write side (pending or inside), or NoProc
    mtxReaders,  \* st.mtx: read holds of each caller
    mtxSleep,    \* st.mtx: readers put to sleep by a pending or active writer
    pc,          \* each caller's position
    call,        \* each caller's operation and arguments
    frames,      \* each caller's stack of store methods that took the guard
    ctx,         \* each caller's context: "live" or "canceled"
    got,         \* setUsed's local gotUser
    ret          \* what each caller's operation returned

vars == <<t_user, mtxW, mtxReaders, mtxSleep, pc, call, frames, ctx, got, ret>>

EmptyTable == [i \in {} |-> 0]
RowOf(u) == [name |-> u.Name, pwd |-> u.Pwd, role |-> u.Role, used_space |-> u.UsedSpace,
             quota |-> MarshalQuota(u.Quota), preference |-> MarshalPreferences(u.Preferences)]
TableOf(users) == [i \in {u.ID : u \in users} |-> RowOf(CHOOSE u \in users : u.ID = i)]

NoCall == [op |-> "none"]
\* What an operation returns: its error ("nil" for none) and, with no error, the
\* value of a read.
NoRet == [err |-> "none"]
RetErr(e) == [err |-> e]
RetUser(u) == [err |-> "nil", user |-> u]
RetUsers(us) == [err |-> "nil", users |-> us]
RetIDs(m) == [err |-> "nil", ids |-> m]

WriteOps == {"AddUser", "DelUser", "SetPwd", "SetInfo", "SetPreferences", "SetUsed", "ResetUsed"}
ReadOps == {"GetUser", "GetUserByName", "ListUsers", "ListUserIDs"}
RoleOps == {"AddRole", "DelRole", "ListRoles"}

\* The operations a caller may issue, with their arguments.
Calls ==
    [op : {"AddUser"}, user : NewUsers]
    \cup [op : {"DelUser", "GetUser"}, id : IDs]
    \cup [op : {"GetUserByName"}, name : Names]
    \cup [op : {"SetPwd"}, id : IDs, pwd : {"y"}]
    \cup [op : {"SetInfo"}, id : IDs, role : {"admin"}, quota : {QuotaOf(1)}]
    \cup [op : {"SetPreferences"}, id : IDs, prefers : {"P2"}]
    \cup [op : {"SetUsed"}, id : IDs, incr : BOOLEAN, capacity : Amounts]
    \cup [op : {"ResetUsed"}, id : IDs, used : ResetValues]
    \cup [op : {"ListUsers", "ListUserIDs"} \cup RoleOps]

\* ------------------------------------------------------------------ storage
\* The storage calls fail with the context's error, and change nothing, when
\* the caller's context is canceled.
\* Faulty variant of CtxErr: the storage calls are not given the caller's context.
CtxErr_Background(p) == "nil"

CtxErr(p) == IF ctx[p] = "canceled" THEN "Canceled" ELSE "nil"

\* Faulty variant of InsertErr: only the id is a key of the table.
InsertErr_IDOnly(tbl, u) == IF u.ID \in DOMAIN tbl THEN "DuplicateKey" ELSE "nil"

\* insert into t_user: the table's keys reject a stored id or a stored name.
InsertErr(tbl, u) ==
    IF u.ID \in DOMAIN tbl \/ \E i \in DOMAIN tbl : tbl[i].name = u.Name
    THEN "DuplicateKey" ELSE "nil"
Insert(tbl, u) == [i \in DOMAIN tbl \cup {u.ID} |-> IF i = u.ID THEN RowOf(u) ELSE tbl[i]]
\* Faulty variant of Delete: the statement has no where clause.
Delete_EveryRow(tbl, id) == [i \in {} |-> tbl[i]]

\* delete from t_user where id=?
Delete(tbl, id) == [i \in DOMAIN tbl \ {id} |-> tbl[i]]

\* Faulty variant of UserOfRow: the pwd column is not read.
UserOfRow_NoPwd(id, row) ==
    [ID |-> id, Name |-> row.name, Pwd |-> "", Role |-> row.role,
     UsedSpace |-> row.used_space,
     Quota |-> UnmarshalQuota(row.quota).v,
     Preferences |-> UnmarshalPreferences(row.preference).v]

\* select ... from t_user where id=? and the decoding of the row (getUser)
UserOfRow(id, row) ==
    [ID |-> id, Name |-> row.name, Pwd |-> row.pwd, Role |-> row.role,
     UsedSpace |-> row.used_space,
     Quota |-> UnmarshalQuota(row.quota).v,
     Preferences |-> UnmarshalPreferences(row.preference).v]
DecodeErr(row) ==
    IF UnmarshalQuota(row.quota).err # "nil" THEN UnmarshalQuota(row.quota).err
    ELSE UnmarshalPreferences(row.preference).err
\* Faulty variant of getUser: a missing row is read as the zero user.
getUser_NoRowsZero(p, id) ==
    IF CtxErr(p) # "nil" THEN RetErr(CtxErr(p))
    ELSE IF id \notin DOMAIN t_user
    THEN RetUser([ID |-> id, Name |-> "", Pwd |-> "", Role |-> "", UsedSpace |-> 0,
                  Quota |-> QuotaOf(0), Preferences |-> "nil"])
    ELSE IF DecodeErr(t_user[id]) # "nil" THEN RetErr(DecodeErr(t_user[id]))
    ELSE RetUser(UserOfRow(id, t_user[id]))

getUser(p, id) ==
    IF CtxErr(p) # "nil" THEN RetErr(CtxErr(p))
    ELSE IF id \notin DOMAIN t_user THEN RetErr("ErrUserNotFound")
    ELSE IF DecodeErr(t_user[id]) # "nil" THEN RetErr(DecodeErr(t_user[id]))
    ELSE RetUser(UserOfRow(id, t_user[id]))

\* -------------------------------------------------------------------- guard
\* Which side of st.mtx a handler takes on entry (st.Lock / st.RLock), and the
\* deferred call that gives it back.
\* Faulty variant of GuardOf: ResetUsed takes the read side.
GuardOf_ResetUsedShared(op) == IF op \in WriteOps \ {"ResetUsed"} THEN "Lock" ELSE "RLock"
GuardOf(op) == IF op \in WriteOps THEN "Lock" ELSE "RLock"
\* Faulty variant of Release: GetUser returns without st.RUnlock().
Release_GetUserKeeps(op) ==
    IF op = "GetUser" THEN "done" ELSE IF GuardOf(op) = "Lock" THEN "Unlock" ELSE "RUnlock"
Release(op) == IF GuardOf(op) = "Lock" THEN "Unlock" ELSE "RUnlock"
\* Faulty variant of Entry: SetUsed calls setUsed without st.Lock().
Entry_SetUsedUnguarded(op) ==
    IF op \in RoleOps THEN "panic" ELSE IF op = "SetUsed" THEN "setUsed" ELSE GuardOf(op)
\* A handler's first step: a role operation panics, any other makes its guard call.
Entry(op) == IF op \in RoleOps THEN "panic" ELSE GuardOf(op)
\* The handler's first step after its guard call.
Body(op) == IF op = "SetUsed" THEN "setUsed" ELSE op

Top(p) == frames[p][Len(frames[p])]
Pop(p) == SubSeq(frames[p], 1, Len(frames[p]) - 1)

\* A caller enters an operation: a role operation panics, any other handler
\* starts with its guard call.
Call(p, c) ==
    /\ pc[p] = "idle"
    /\ call' = [call EXCEPT ![p] = c]
    /\ frames' = [frames EXCEPT ![p] = <<c.op>>]
    /\ pc' = [pc EXCEPT ![p] = Entry(c.op)]
    /\ UNCHANGED <<t_user, mtxW, mtxReaders, mtxSleep, ctx, got, ret>>

\* The pcs at which the next step is a storage call.
StorageSteps ==
    {"AddUser", "DelUser", "GetUser", "GetUserByName", "SetPwd", "SetInfo", "SetPreferences",
     "setUsed", "setUsed_exec", "ResetUsed", "ListUsers"}

\* The caller's context is canceled while its operation is in flight. A handler
\* observes its context only in its storage calls, so the cancellations are
\* taken right before one.
Cancel(p) ==
    /\ pc[p] \in StorageSteps
    /\ ctx[p] = "live"
    /\ ctx' = [ctx EXCEPT ![p] = "canceled"]
    /\ UNCHANGED <<t_user, mtxW, mtxReaders, mtxSleep, pc, call, frames, got, ret>>

\* st.Lock(), first half: take the write side; from here on new readers sleep.
Lock(p) ==
    /\ pc[p] = "Lock"
    /\ mtxW = NoProc
    /\ mtxW' = p
    /\ pc' = [pc EXCEPT ![p] = "LockWait"]
    /\ UNCHANGED <<t_user, mtxReaders, mtxSleep, call, frames, ctx, got, ret>>

\* st.Lock(), second half: the readers that were inside have left.
LockAcquired(p) ==
    /\ pc[p] = "LockWait"
    /\ \A q \in Procs : mtxReaders[q] = 0
    /\ pc' = [pc EXCEPT ![p] = Body(Top(p))]
    /\ UNCHANGED <<t_user, mtxW, mtxReaders, mtxSleep, call, frames, ctx, got, ret>>

\* st.Unlock(), deferred: the sleeping readers are let in, the write side is
\* given back, and the handler returns.
Unlock(p) ==
    /\ pc[p] = "Unlock"
    /\ mtxW' = NoProc
    /\ mtxReaders' = [q \in Procs |-> mtxReaders[q] + (IF q \in mtxSleep THEN 1 ELSE 0)]
    /\ mtxSleep' = {}
    /\ frames' = [frames EXCEPT ![p] = Pop(p)]
    /\ pc' = [pc EXCEPT ![p] = "done"]
    /\ UNCHANGED <<t_user, call, ctx, got, ret>>

\* st.RLock(): a reader enters unless a writer is pending or inside; then it sleeps.
RLock(p) ==
    /\ pc[p] = "RLock"
    /\ IF mtxW = NoProc
       THEN /\ mtxReaders' = [mtxReaders EXCEPT ![p] = @ + 1]
            /\ pc' = [pc EXCEPT ![p] = Body(Top(p))]
            /\ UNCHANGED mtxSleep
       ELSE /\ mtxSleep' = mtxSleep \cup {p}
            /\ pc' = [pc EXCEPT ![p] = "RLockSleep"]
            /\ UNCHANGED mtxReaders
    /\ UNCHANGED <<t_user, mtxW, call, frames, ctx, got, ret>>

\* st.RLock() returns in a reader the writer's Unlock let in.
RLockWake(p) ==
    /\ pc[p] = "RLockSleep"
    /\ p \notin mtxSleep
    /\ pc' = [pc EXCEPT ![p] = Body(Top(p))]
    /\ UNCHANGED <<t_user, mtxW, mtxReaders, mtxSleep, call, frames, ctx, got, ret>>

\* st.RUnlock(), deferred: the read hold is given back and the method returns,
\* to ListUserIDs when ListUsers was called by it.
RUnlock(p) ==
    /\ pc[p] = "RUnlock"
    /\ mtxReaders' = [mtxReaders EXCEPT ![p] = @ - 1]
    /\ frames' = [frames EXCEPT ![p] = Pop(p)]
    /\ pc' = [pc EXCEPT ![p] = IF Pop(p) = <<>> THEN "done" ELSE "ListUserIDs_ret"]
    /\ UNCHANGED <<t_user, mtxW, mtxSleep, call, ctx, got, ret>>

\* A handler's return with result r: its deferred guard call runs next.
Return(p, r) ==
    /\ ret' = [ret EXCEPT ![p] = r]
    /\ pc' = [pc EXCEPT ![p] = Release(Top(p))]
    /\ UNCHANGED <<mtxW, mtxReaders, mtxSleep, call, frames, ctx, got>>

\* ----------------------------------------------------------------- handlers
\* Faulty variant of SetColumns: the update has no where clause.
SetColumns_EveryRow(tbl, id, row) == [i \in DOMAIN tbl |-> row]

\* update t_user set <column>=? where id=?: no row, no change, no error.
SetColumns(tbl, id, row) == IF id \in DOMAIN tbl THEN [tbl EXCEPT ![id] = row] ELSE tbl

\* AddUser: encodes quota and preferences and inserts the row.
AddUser(p) ==
    /\ pc[p] = "AddUser"
    /\ LET u == call[p].user
           err == IF CtxErr(p) # "nil" THEN CtxErr(p) ELSE InsertErr(t_user, u)
       IN /\ t_user' = IF err = "nil" THEN Insert(t_user, u) ELSE t_user
          /\ Return(p, RetErr(err))

DelUser(p) ==
    /\ pc[p] = "DelUser"
    /\ t_user' = IF CtxErr(p) = "nil" THEN Delete(t_user, call[p].id) ELSE t_user
    /\ Return(p, RetErr(CtxErr(p)))

GetUser(p) ==
    /\ pc[p] = "GetUser"
    /\ Return(p, getUser(p, call[p].id))
    /\ UNCHANGED t_user

\* select ... where name=?, decoded as in getUser
GetUserByName(p) ==
    /\ pc[p] = "GetUserByName"
    /\ LET found == {i \in DOMAIN t_user : t_user[i].name = call[p].name}
       IN Return(p, IF CtxErr(p) # "nil" THEN RetErr(CtxErr(p))
                    ELSE IF found = {} THEN RetErr("ErrUserNotFound")
                    ELSE getUser(p, CHOOSE i \in found : TRUE))
    /\ UNCHANGED t_user

\* Faulty variant of SetPwd: an update that matched no row is reported.
SetPwd_ChecksRow(p) ==
    /\ pc[p] = "SetPwd"
    /\ LET id == call[p].id
       IN /\ t_user' = IF CtxErr(p) = "nil" /\ id \in DOMAIN t_user
                       THEN SetColumns(t_user, id, [t_user[id] EXCEPT !.pwd = call[p].pwd])
                       ELSE t_user
          /\ Return(p, RetErr(IF CtxErr(p) # "nil" THEN CtxErr(p)
                              ELSE IF id \notin DOMAIN t_user THEN "ErrUserNotFound"
                              ELSE "nil"))

SetPwd(p) ==
    /\ pc[p] = "SetPwd"
    /\ LET id == call[p].id
       IN t_user' = IF CtxErr(p) = "nil" /\ id \in DOMAIN t_user
                    THEN SetColumns(t_user, id, [t_user[id] EXCEPT !.pwd = call[p].pwd])
                    ELSE t_user
    /\ Return(p, RetErr(CtxErr(p)))

\* role + quota
SetInfo(p) ==
    /\ pc[p] = "SetInfo"
    /\ LET id == call[p].id
       IN t_user' = IF CtxErr(p) = "nil" /\ id \in DOMAIN t_user
                    THEN SetColumns(t_user, id, [t_user[id] EXCEPT !.role = call[p].role,
                                                   !.quota = MarshalQuota(call[p].quota)])
                    ELSE t_user
    /\ Return(p, RetErr(CtxErr(p)))

SetPreferences(p) ==
    /\ pc[p] = "SetPreferences"
    /\ LET id == call[p].id
       IN t_user' = IF CtxErr(p) = "nil" /\ id \in DOMAIN t_user
                    THEN SetColumns(t_user, id,
                             [t_user[id] EXCEPT !.preference = MarshalPreferences(call[p].prefers)])
                    ELSE t_user
    /\ Return(p, RetErr(CtxErr(p)))

\* Faulty variant of newUsed: the increase is not checked against the limit.
newUsed_NoLimit(u, incr, capacity) ==
    IF incr
    THEN [err |-> "nil", used |-> Wrap(u.UsedSpace + capacity)]
    ELSE IF Wrap(u.UsedSpace - capacity) < 0
    THEN [err |-> "ErrNegtiveUsedSpace", used |-> u.UsedSpace]
    ELSE [err |-> "nil", used |-> Wrap(u.UsedSpace - capacity)]

\* setUsed's arithmetic on the user it read: the error it returns, or "nil"
\* and the new UsedSpace, in int64 arithmetic.
newUsed(u, incr, capacity) ==
    IF incr /\ Wrap(u.UsedSpace + capacity) > u.Quota.SpaceLimit
    THEN [err |-> "ErrReachedLimit", used |-> u.UsedSpace]
    ELSE IF incr
    THEN [err |-> "nil", used |-> Wrap(u.UsedSpace + capacity)]
    ELSE IF Wrap(u.UsedSpace - capacity) < 0
    THEN [err |-> "ErrNegtiveUsedSpace", used |-> u.UsedSpace]
    ELSE [err |-> "nil", used |-> Wrap(u.UsedSpace - capacity)]

\* setUsed, up to its write: reads the user, checks the limits, computes.
setUsed(p) ==
    /\ pc[p] = "setUsed"
    /\ LET r == getUser(p, call[p].id)
           n == newUsed(r.user, call[p].incr, call[p].capacity)
       IN IF r.err # "nil" THEN Return(p, RetErr(r.err)) /\ UNCHANGED t_user
          ELSE IF n.err # "nil" THEN Return(p, RetErr(n.err)) /\ UNCHANGED t_user
          ELSE /\ got' = [got EXCEPT ![p] = [r.user EXCEPT !.UsedSpace = n.used]]
               /\ pc' = [pc EXCEPT ![p] = "setUsed_exec"]
               /\ UNCHANGED <<t_user, mtxW, mtxReaders, mtxSleep, call, frames, ctx, ret>>

\* setUsed's write: update t_user set used_space=? where id=?
setUsed_exec(p) ==
    /\ pc[p] = "setUsed_exec"
    /\ LET id == got[p].ID
       IN t_user' = IF CtxErr(p) = "nil" /\ id \in DOMAIN t_user
                    THEN SetColumns(t_user, id, [t_user[id] EXCEPT !.used_space = got[p].UsedSpace])
                    ELSE t_user
    /\ Return(p, RetErr(CtxErr(p)))

\* Faulty variant of ResetUsedRow: the value is kept within the quota.
ResetUsedRow_Clamped(row, used) ==
    [row EXCEPT !.used_space = IF used > UnmarshalQuota(row.quota).v.SpaceLimit
                               THEN UnmarshalQuota(row.quota).v.SpaceLimit ELSE used]

\* ResetUsed's statement: set used_space=? with the value given.
ResetUsedRow(row, used) == [row EXCEPT !.used_space = used]

ResetUsed(p) ==
    /\ pc[p] = "ResetUsed"
    /\ LET id == call[p].id
       IN t_user' = IF CtxErr(p) = "nil" /\ id \in DOMAIN t_user
                    THEN SetColumns(t_user, id, ResetUsedRow(t_user[id], call[p].used))
                    ELSE t_user
    /\ Return(p, RetErr(CtxErr(p)))

\* The rows of a full-table select, in id order.
RECURSIVE RowIDs(_)
RowIDs(S) ==
    IF S = {} THEN <<>>
    ELSE LET m == CHOOSE i \in S : \A j \in S : i <= j IN <<m>> \o RowIDs(S \ {m})

\* ListUsers: select id, name, role, used_space, quota, preference (no pwd);
\* the first row that does not decode fails the listing.
ListUsers(p) ==
    /\ pc[p] = "ListUsers"
    /\ LET ids == RowIDs(DOMAIN t_user)
           bad == {i \in DOMAIN t_user : DecodeErr(t_user[i]) # "nil"}
       IN Return(p, IF CtxErr(p) # "nil" THEN RetErr(CtxErr(p))
                    ELSE IF bad # {} THEN RetErr("DecodeError")
                    ELSE RetUsers([k \in 1 .. Len(ids) |->
                                      [UserOfRow(ids[k], t_user[ids[k]]) EXCEPT !.Pwd = ""]]))
    /\ UNCHANGED t_user

\* ListUserIDs, after its own st.RLock(): calls ListUsers, which takes the
\* read side again.
ListUserIDs(p) ==
    /\ pc[p] = "ListUserIDs"
    /\ frames' = [frames EXCEPT ![p] = Append(@, "ListUsers")]
    /\ pc' = [pc EXCEPT ![p] = "RLock"]
    /\ UNCHANGED <<t_user, mtxW, mtxReaders, mtxSleep, call, ctx, got, ret>>

\* ListUserIDs, after ListUsers returned: the name -> string(id) map.
ListUserIDs_ret(p) ==
    /\ pc[p] = "ListUserIDs_ret"
    /\ LET r == ret[p]
       IN Return(p, IF r.err # "nil" THEN RetErr(r.err)
                    ELSE RetIDs({<<r.users[k].Name, Sprint(r.users[k].ID)>> :
                                    k \in 1 .. Len(r.users)}))
    /\ UNCHANGED t_user

\* AddRole, DelRole, ListRoles: panic("not implemented")
Panic(p) ==
    /\ pc[p] = "panic"
    /\ pc' = [pc EXCEPT ![p] = "panicked"]
    /\ UNCHANGED <<t_user, mtxW, mtxReaders, mtxSleep, call, frames, ctx, got, ret>>

\* ------------------------------------------------------------ specification
Init ==
    /\ t_user \in {EmptyTable, TableOf({FirstUser})}
    /\ mtxW = NoProc
    /\ mtxReaders = [p \in Procs |-> 0]
    /\ mtxSleep = {}
    /\ pc = [p \in Procs |-> "idle"]
    /\ call = [p \in Procs |-> NoCall]
    /\ frames = [p \in Procs |-> <<>>]
    /\ ctx = [p \in Procs |-> "live"]
    /\ got = [p \in Procs |-> NoUser]
    /\ ret = [p \in Procs |-> NoRet]

Step(p) ==
    \/ Cancel(p)
    \/ Lock(p) \/ LockAcquired(p) \/ Unlock(p)
    \/ RLock(p) \/ RLockWake(p) \/ RUnlock(p)
    \/ AddUser(p) \/ DelUser(p) \/ GetUser(p) \/ GetUserByName(p)
    \/ SetPwd(p) \/ SetInfo(p) \/ SetPreferences(p)
    \/ setUsed(p) \/ setUsed_exec(p) \/ ResetUsed(p)
    \/ ListUsers(p) \/ ListUserIDs(p) \/ ListUserIDs_ret(p)
    \/ Panic(p)

Next == \E p \in Callers : (\E c \in Calls : Call(p, c)) \/ Step(p)

Spec == Init /\ [][Next]_vars

\* The accounting scenario: every caller issues one SetUsed on the first user,
\* stored with UsedSpace = 0 and SpaceLimit = NumProcs - 1, and nothing else
\* touches the store.
AdjustAmounts == {-1, 1, MaxInt}
AdjustCalls == [op : {"SetUsed"}, id : {FirstUser.ID}, incr : BOOLEAN, capacity : AdjustAmounts]

InitAdjust == Init /\ t_user = TableOf({FirstUser})

NextAdjust ==
    \E p \in Procs :
        \/ \E c \in AdjustCalls : Call(p, c)
        \/ Cancel(p)
        \/ Lock(p) \/ LockAcquired(p) \/ Unlock(p)
        \/ setUsed(p) \/ setUsed_exec(p)

SpecAdjust == InitAdjust /\ [][NextAdjust]_vars

\* ------------------------------------------------------------------- claims
Used(tbl, id) == tbl[id].used_space
Limit(tbl, id) == UnmarshalQuota(tbl[id].quota).v.SpaceLimit
AllDone == \A p \in Procs : pc[p] = "done"
Succeeded == {p \in Procs : pc[p] = "done" /\ ret[p].err = "nil"}

\* setUsed takes its read-and-check step in caller p, on a stored user, with a
\* live context.
SetUsedChecks(p) ==
    /\ pc[p] = "setUsed"
    /\ pc'[p] # "setUsed"
    /\ ctx[p] = "live"
    /\ call[p].id \in DOMAIN t_user

\* C1: SetUsed(id, incr=true, amount) on a stored user with UsedSpace + amount >
\* SpaceLimit returns ErrReachedLimit and changes nothing in the table.
C1_IncreasePastLimitRejected ==
    [][\A p \in Procs :
          (/\ SetUsedChecks(p)
           /\ call[p].incr
           /\ Used(t_user, call[p].id) + call[p].capacity > Limit(t_user, call[p].id))
          => (/\ ret'[p].err = "ErrReachedLimit"
              /\ pc'[p] = "Unlock"
              /\ t_user' = t_user)]_vars

\* C2: SetUsed(id, incr=false, amount) on a stored user with UsedSpace - amount < 0
\* returns ErrNegtiveUsedSpace and changes nothing in the table.
C2_DecreaseBelowZeroRejected ==
    [][\A p \in Procs :
          (/\ SetUsedChecks(p)
           /\ ~call[p].incr
           /\ Used(t_user, call[p].id) - call[p].capacity < 0)
          => (/\ ret'[p].err = "ErrNegtiveUsedSpace"
              /\ pc'[p] = "Unlock"
              /\ t_user' = t_user)]_vars

\* Every caller issued SetUsed(FirstUser.ID, incr=true, 1) and no context was canceled.
AllIncrementByOne ==
    \A p \in Procs :
        /\ call[p] = [op |-> "SetUsed", id |-> FirstUser.ID, incr |-> TRUE, capacity |-> 1]
        /\ ctx[p] = "live"

\* C3: NumProcs concurrent SetUsed(id, true, 1) on a user with UsedSpace = 0 and
\* SpaceLimit = NumProcs - 1: once all have returned, exactly NumProcs - 1
\* succeeded, exactly one got ErrReachedLimit, and UsedSpace = NumProcs - 1.
C3_AllButOneIncrementSucceed ==
    (AllDone /\ AllIncrementByOne)
    => /\ Cardinality(Succeeded) = NumProcs - 1
       /\ Cardinality({p \in Procs : ret[p].err = "ErrReachedLimit"}) = 1
       /\ Used(t_user, FirstUser.ID) = NumProcs - 1

C3_Witness ==
    /\ AllDone /\ AllIncrementByOne
    /\ Cardinality(Succeeded) = NumProcs - 1
    /\ Used(t_user, FirstUser.ID) = Limit(t_user, FirstUser.ID)

\* The signed change a SetUsed call asks for.
Delta(c) == IF c.incr THEN c.capacity ELSE -c.capacity
RECURSIVE SumDeltas(_)
SumDeltas(S) ==
    IF S = {} THEN 0
    ELSE LET p == CHOOSE q \in S : TRUE IN Delta(call[p]) + SumDeltas(S \ {p})

\* C4: with only SetUsed calls on one user, UsedSpace stays within
\* [0, SpaceLimit] after every committed call, and once all calls have returned
\* it is the initial UsedSpace plus the deltas of the calls that succeeded.
C4_SuccessfulDeltasAddUpInRange ==
    /\ 0 <= Used(t_user, FirstUser.ID)
    /\ Used(t_user, FirstUser.ID) <= Limit(t_user, FirstUser.ID)
    /\ AllDone => Used(t_user, FirstUser.ID) = FirstUser.UsedSpace + SumDeltas(Succeeded)

\* Caller p commits an accounting operation: its write statement succeeds.
CommitsSetUsed(p) == pc[p] = "setUsed_exec" /\ pc'[p] = "Unlock" /\ ret'[p].err = "nil"
CommitsResetUsed(p) == pc[p] = "ResetUsed" /\ pc'[p] = "Unlock" /\ ret'[p].err = "nil"
WithinQuota(tbl) ==
    \A i \in DOMAIN tbl : 0 <= Used(tbl, i) /\ Used(tbl, i) <= Limit(tbl, i)

\* C5: in the state that follows a committed SetUsed or ResetUsed, every stored
\* user has 0 <= UsedSpace <= Quota.SpaceLimit.
C5_WithinQuotaAfterAccounting ==
    [][\A p \in Procs : (CommitsSetUsed(p) \/ CommitsResetUsed(p)) => WithinQuota(t_user')]_vars

\* C5, as amended: a committed SetUsed increase leaves that user's UsedSpace at
\* most its SpaceLimit, and a committed SetUsed decrease leaves it at least 0.
C5_SetUsedBoundsItsOwnSide ==
    [][\A p \in Procs :
          (CommitsSetUsed(p) /\ call[p].id \in DOMAIN t_user')
          => IF call[p].incr
             THEN Used(t_user', call[p].id) <= Limit(t_user', call[p].id)
             ELSE Used(t_user', call[p].id) >= 0]_vars

C5_Witness ==
    \E p \in Procs :
        /\ pc[p] = "done" /\ call[p].op = "SetUsed" /\ ret[p].err = "nil"
        /\ call[p].incr /\ call[p].capacity > 0
        /\ call[p].id \in DOMAIN t_user
        /\ Used(t_user, call[p].id) = Limit(t_user, call[p].id)

\* C6: ResetUsed on a stored user, with a live context, stores the value given
\* and returns no error, whatever the prior UsedSpace and the SpaceLimit; and
\* its write never falls between the read and the write of a SetUsed.
C6_ResetUsedOverrides ==
    [][\A p \in Procs :
          (/\ pc[p] = "ResetUsed" /\ pc'[p] # "ResetUsed"
           /\ ctx[p] = "live"
           /\ call[p].id \in DOMAIN t_user)
          => (/\ Used(t_user', call[p].id) = call[p].used
              /\ ret'[p].err = "nil"
              /\ \A q \in Procs : pc[q] # "setUsed_exec")]_vars

C6_Witness ==
    \E p \in Procs :
        /\ pc[p] = "done" /\ call[p].op = "ResetUsed" /\ ret[p].err = "nil"
        /\ call[p].id \in DOMAIN t_user
        /\ Used(t_user, call[p].id) = call[p].used
        /\ call[p].used > Limit(t_user, call[p].id)
        /\ \E q \in Procs : pc[q] = "done" /\ call[q].op = "SetUsed" /\ ret[q].err = "nil"

\* Caller p is inside the critical section of a store method: between the
\* return of its guard call and its deferred release.
InCritical(p) ==
    /\ pc[p] \notin {"idle", "done", "panic", "panicked"}
    /\ ~(Len(frames[p]) = 1 /\ pc[p] \in {"Lock", "LockWait", "RLock", "RLockSleep"})
WriterInCritical(p) == InCritical(p) /\ call[p].op \in WriteOps
ReaderInCritical(p) == InCritical(p) /\ call[p].op \in ReadOps

\* C7: while a write operation is inside its critical section, no other
\* operation, write or read, is inside its own.
C7_WriterExcludesAll ==
    \A p, q \in Procs : (p # q /\ WriterInCritical(p)) => ~InCritical(q)

\* Two read operations are at their storage calls at the same time.
C7_Witness ==
    \E p, q \in Procs :
        /\ p # q /\ ReaderInCritical(p) /\ ReaderInCritical(q)
        /\ pc[p] \in StorageSteps /\ pc[q] \in StorageSteps

\* C8: a storage call is made only with the guard held, on the handler's side of
\* it, and a caller that has returned holds neither side.
C8_GuardHeldThenReleased ==
    \A p \in Procs :
        /\ (pc[p] \in StorageSteps /\ call[p].op \in WriteOps)
              => (mtxW = p /\ \A q \in Procs : mtxReaders[q] = 0)
        /\ (pc[p] \in StorageSteps /\ call[p].op \in ReadOps)
              => (mtxReaders[p] >= 1 /\ p \notin mtxSleep)
        /\ pc[p] \in {"idle", "done"}
              => (mtxW # p /\ mtxReaders[p] = 0 /\ p \notin mtxSleep)

\* Callers have returned with a cancellation, a refused adjustment and a
\* missing user, and the guard is free.
C8_Witness ==
    /\ \A p \in Callers : pc[p] = "done"
    /\ \E p, q \in Callers :
          /\ ret[p].err = "Canceled" /\ call[p].op = "SetUsed" /\ got[p] # NoUser
          /\ ret[q].err \in {"ErrReachedLimit", "ErrNegtiveUsedSpace", "ErrUserNotFound"}
    /\ mtxW = NoProc /\ mtxSleep = {} /\ \A p \in Procs : mtxReaders[p] = 0

\* Caller p waits in a guard call that cannot return in this state.
BlockedOnGuard(p) ==
    \/ pc[p] = "Lock" /\ mtxW # NoProc
    \/ pc[p] = "LockWait" /\ \E q \in Procs : mtxReaders[q] > 0
    \/ pc[p] = "RLockSleep" /\ p \in mtxSleep
InFlight(p) == pc[p] \notin {"idle", "done", "panic", "panicked"}

\* C9: no state is reached in which operations are in flight and every one of
\* them is blocked on the guard, so every operation can go on to return.
C9_NeverAllBlocked ==
    (\E p \in Procs : InFlight(p)) => (\E p \in Procs : InFlight(p) /\ ~BlockedOnGuard(p))

\* db.CheckUser: the required fields are not empty and the quota is well formed.
CheckUser(u) ==
    /\ u.Name # "" /\ u.Pwd # "" /\ u.Role # ""
    /\ u.Quota.SpaceLimit >= 0

\* C10: AddUser of a user that fails the validity check returns an error and
\* inserts no row.
C10_AddUserValidates ==
    [][\A p \in Procs :
          (pc[p] = "AddUser" /\ pc'[p] # "AddUser" /\ ~CheckUser(call[p].user))
          => (ret'[p].err # "nil" /\ t_user' = t_user)]_vars

\* Caller q has returned from a successful AddUser.
Added(q) == pc[q] = "done" /\ call[q].op = "AddUser" /\ ret[q].err = "nil"
\* Caller p takes its lookup step, with a live context.
Looks(p, op) == pc[p] = op /\ pc'[p] # op /\ ctx[p] = "live"

\* C11: after AddUser(u) has succeeded, with no write in between, GetUser(u.ID)
\* and GetUserByName(u.Name) return a record equal to u in every field (ID,
\* Name, Pwd, Role, UsedSpace, Quota, Preferences).
C11_AddThenGetRoundTrip ==
    [][\A p, q \in Procs :
          /\ (Added(q) /\ Looks(p, "GetUser") /\ call[p].id = call[q].user.ID)
                => ret'[p] = RetUser(call[q].user)
          /\ (Added(q) /\ Looks(p, "GetUserByName") /\ call[p].name = call[q].user.Name)
                => ret'[p] = RetUser(call[q].user)]_vars

C11_Witness ==
    \E p, q \in Procs :
        /\ Added(q) /\ call[q].user.ID # FirstUser.ID
        /\ pc[p] = "done" /\ call[p].op = "GetUser" /\ call[p].id = call[q].user.ID
        /\ ret[p] = RetUser(call[q].user)
        /\ ret[p].user.Pwd # "" /\ ret[p].user.Quota = call[q].user.Quota

\* No two rows share a name (rows are keyed by id, so no two share an id).
UniqueKeys(tbl) == \A i, j \in DOMAIN tbl : i # j => tbl[i].name # tbl[j].name
\* The user handed to AddUser has the id or the name of a stored row.
Collides(tbl, u) == u.ID \in DOMAIN tbl \/ \E i \in DOMAIN tbl : tbl[i].name = u.Name

\* C12: AddUser of a user whose ID or Name is already stored fails with the
\* duplicate-key error and leaves the table as it was; and in every state, after
\* any operations of concurrent callers, no two rows share an ID or a Name.
C12_AddUserRejectsDuplicates ==
    [][/\ \A p \in Procs :
             (/\ pc[p] = "AddUser" /\ pc'[p] # "AddUser" /\ ctx[p] = "live"
              /\ Collides(t_user, call[p].user))
             => (ret'[p].err = "DuplicateKey" /\ t_user' = t_user)
       /\ UniqueKeys(t_user')]_vars

\* Two concurrent AddUser calls with one name and two ids: one was refused.
C12_Witness ==
    \E p, q \in Procs :
        /\ Added(q)
        /\ pc[p] = "done" /\ call[p].op = "AddUser" /\ ret[p].err = "DuplicateKey"
        /\ call[p].user.Name = call[q].user.Name /\ call[p].user.ID # call[q].user.ID
        /\ DOMAIN t_user = {call[q].user.ID}

\* C13: GetUser(id), GetUserByName(name) and SetUsed(id, ...) with no stored row
\* for the id or name return ErrUserNotFound; SetUsed then issues no write, and
\* the table is unchanged. The same holds for an id removed by DelUser.
C13_MissingUserNotFound ==
    [][\A p \in Procs :
          /\ (Looks(p, "GetUser") /\ call[p].id \notin DOMAIN t_user)
                => (ret'[p] = RetErr("ErrUserNotFound") /\ t_user' = t_user)
          /\ (/\ Looks(p, "GetUserByName")
              /\ \A i \in DOMAIN t_user : t_user[i].name # call[p].name)
                => (ret'[p] = RetErr("ErrUserNotFound") /\ t_user' = t_user)
          /\ (Looks(p, "setUsed") /\ call[p].id \notin DOMAIN t_user)
                => (/\ ret'[p] = RetErr("ErrUserNotFound")
                    /\ pc'[p] = "Unlock"
                    /\ t_user' = t_user)]_vars

\* SetUsed on the id DelUser removed has returned ErrUserNotFound, having read
\* no user and written nothing.
C13_Witness ==
    \E p, q \in Procs :
        /\ pc[q] = "done" /\ call[q].op = "DelUser" /\ ret[q].err = "nil"
        /\ pc[p] = "done" /\ call[p].op = "SetUsed" /\ call[p].id = call[q].id
        /\ ret[p] = RetErr("ErrUserNotFound") /\ got[p] = NoUser
        /\ call[p].id = FirstUser.ID /\ t_user = EmptyTable

\* C14: DelUser(id) returns no error whether or not the row exists, removes that
\* row and no other, and a second DelUser(id) changes nothing more.
C14_DelUserIdempotent ==
    [][\A p \in Procs :
          (pc[p] = "DelUser" /\ pc'[p] # "DelUser" /\ ctx[p] = "live")
          => (/\ ret'[p] = RetErr("nil")
              /\ DOMAIN t_user' = DOMAIN t_user \ {call[p].id}
              /\ \A i \in DOMAIN t_user' : t_user'[i] = t_user[i]
              /\ call[p].id \notin DOMAIN t_user => t_user' = t_user)]_vars

\* A DelUser of an id that is not stored has returned no error next to a row it
\* left alone.
C14_Witness ==
    \E p \in Procs :
        /\ pc[p] = "done" /\ call[p].op = "DelUser" /\ ret[p] = RetErr("nil")
        /\ call[p].id \notin DOMAIN t_user
        /\ t_user # EmptyTable
        /\ \A q \in Procs : call[q].op \in {"DelUser", "none"}

\* C15: AddRole, DelRole and ListRoles return an Unimplemented error to the
\* caller: the call returns, it does not panic, and the table is unchanged.
C15_RoleOpsReturnUnimplemented ==
    [][\A p \in Procs :
          (call[p].op \in RoleOps /\ pc[p] = "panic" /\ pc'[p] # "panic")
          => (/\ pc'[p] = "done"
              /\ ret'[p] = RetErr("Unimplemented")
              /\ t_user' = t_user)]_vars

\* The pcs of the update statements, the id each is given, and the columns it
\* sets with their values.
UpdateSteps == {"SetPwd", "SetInfo", "SetPreferences", "setUsed_exec", "ResetUsed"}
UpdatedID(p) == IF pc[p] = "setUsed_exec" THEN got[p].ID ELSE call[p].id
Written(p) ==
    CASE pc[p] = "SetPwd" -> [pwd |-> call[p].pwd]
      [] pc[p] = "SetInfo" -> [role |-> call[p].role, quota |-> MarshalQuota(call[p].quota)]
      [] pc[p] = "SetPreferences" -> [preference |-> MarshalPreferences(call[p].prefers)]
      [] pc[p] = "setUsed_exec" -> [used_space |-> got[p].UsedSpace]
      [] pc[p] = "ResetUsed" -> [used_space |-> call[p].used]

\* C16: an update changes only the columns it names, in the row with the id
\* given: SetPwd pwd; SetInfo role and quota; SetPreferences preference; SetUsed
\* and ResetUsed used_space. Every other column and row is unchanged, and the
\* columns named hold the value of the update that ran last.
C16_UpdatesTouchOnlyTheirColumns ==
    [][\A p \in Procs :
          (pc[p] \in UpdateSteps /\ pc'[p] # pc[p])
          => (/\ DOMAIN t_user' = DOMAIN t_user
              /\ \A i \in DOMAIN t_user :
                    IF i # UpdatedID(p) THEN t_user'[i] = t_user[i]
                    ELSE /\ \A c \in DOMAIN t_user[i] \ DOMAIN Written(p) :
                               t_user'[i][c] = t_user[i][c]
                         /\ ctx[p] = "live"
                               => \A c \in DOMAIN Written(p) : t_user'[i][c] = Written(p)[c])]_vars

\* SetInfo and SetPreferences have both run on the first user: each one's
\* columns hold its values, the others are as stored.
C16_Witness ==
    \E p, q \in Procs :
        /\ pc[p] = "done" /\ call[p].op = "SetInfo" /\ ret[p].err = "nil"
        /\ pc[q] = "done" /\ call[q].op = "SetPreferences" /\ ret[q].err = "nil"
        /\ call[p].id = FirstUser.ID /\ call[q].id = FirstUser.ID
        /\ t_user = TableOf({[FirstUser EXCEPT !.Role = call[p].role,
                                               !.Quota = call[p].quota,
                                               !.Preferences = call[q].prefers]})

\* The records of a returned listing, as a set.
Listed(r) == {r.users[k] : k \in 1 .. Len(r.users)}

\* C17: ListUsers returns one record for each stored row, none missing and none
\* twice, each equal in every field to what GetUser returns for its id; and
\* ListUserIDs returns exactly the map from each stored Name to the decimal
\* string of its ID.
C17_ListingsMatchRows ==
    [][\A p \in Procs :
          /\ Looks(p, "ListUsers")
                => (/\ ret'[p].err = "nil"
                    /\ Len(ret'[p].users) = Cardinality(DOMAIN t_user)
                    /\ Listed(ret'[p]) = {getUser(p, i).user : i \in DOMAIN t_user})
          /\ (Looks(p, "ListUserIDs_ret") /\ ret[p].err = "nil")
                => ret'[p] = RetIDs({<<t_user[i].name, Sprint(i)>> : i \in DOMAIN t_user})]_vars

\* C18: a SetUsed whose context is canceled before its read, or between its
\* read and its write, returns the cancellation error as it is, goes on to no
\* further storage call, and leaves the table as it was; and the write of any
\* SetUsed leaves UsedSpace at the old value or at the value it computed.
C18_CanceledSetUsedKeepsOldValue ==
    [][\A p \in Procs :
          /\ (pc[p] \in {"setUsed", "setUsed_exec"} /\ pc'[p] # pc[p] /\ ctx[p] = "canceled")
                => (/\ ret'[p] = RetErr("Canceled")
                    /\ pc'[p] = "Unlock"
                    /\ t_user' = t_user)
          /\ (pc[p] = "setUsed_exec" /\ pc'[p] # pc[p] /\ got[p].ID \in DOMAIN t_user)
                => (/\ Used(t_user', got[p].ID) \in {Used(t_user, got[p].ID), got[p].UsedSpace}
                    /\ got[p].UsedSpace =
                          newUsed(UserOfRow(got[p].ID, t_user[got[p].ID]),
                                  call[p].incr, call[p].capacity).used)]_vars

\* A SetUsed canceled between its read and its write has returned: the value it
\* computed is not stored.
C18_Witness ==
    \E p \in Procs :
        /\ pc[p] = "done" /\ call[p].op = "SetUsed" /\ ret[p] = RetErr("Canceled")
        /\ got[p] # NoUser /\ got[p].ID \in DOMAIN t_user
        /\ got[p].UsedSpace # Used(t_user, got[p].ID)
        /\ Used(t_user, got[p].ID) = FirstUser.UsedSpace
        /\ \A q \in Procs \ {p} : pc[q] = "idle"

\* C19: for every int64 amount, negative amounts and wrapping sums and
\* differences included, a SetUsed that returns no error on a user with
\* 0 <= UsedSpace <= SpaceLimit leaves 0 <= UsedSpace <= SpaceLimit.
C19_SuccessfulSetUsedStaysInRange ==
    [][\A p \in Procs :
          (/\ CommitsSetUsed(p)
           /\ got[p].ID \in DOMAIN t_user
           /\ 0 <= Used(t_user, got[p].ID)
           /\ Used(t_user, got[p].ID) <= Limit(t_user, got[p].ID))
          => (/\ 0 <= Used(t_user', got[p].ID)
              /\ Used(t_user', got[p].ID) <= Limit(t_user', got[p].ID))]_vars

\* The pcs of the updates that take the id from their caller.
PlainUpdates == {"SetPwd", "SetInfo", "SetPreferences", "ResetUsed"}

\* C20: SetPwd, SetInfo, SetPreferences and ResetUsed with an id that has no
\* stored row return no error, create no row and change no row; and the set of
\* stored ids changes only in a step of AddUser or DelUser.
C20_UpdateOfMissingIdIsNoOp ==
    [][/\ \A p \in Procs :
             (/\ pc[p] \in PlainUpdates /\ pc'[p] # pc[p] /\ ctx[p] = "live"
              /\ call[p].id \notin DOMAIN t_user)
             => (ret'[p] = RetErr("nil") /\ t_user' = t_user)
       /\ DOMAIN t_user' # DOMAIN t_user
             => \E p \in Procs : pc[p] \in {"AddUser", "DelUser"} /\ pc'[p] # pc[p]]_vars

\* SetPwd and SetInfo on an id that is not stored have returned no error, and
\* the table holds the first user as stored and nothing else.
C20_Witness ==
    \E p, q \in Procs :
        /\ pc[p] = "done" /\ call[p].op = "SetPwd" /\ ret[p] = RetErr("nil")
        /\ pc[q] = "done" /\ call[q].op = "SetInfo" /\ ret[q] = RetErr("nil")
        /\ call[p].id \notin DOMAIN t_user /\ call[q].id \notin DOMAIN t_user
        /\ t_user = TableOf({FirstUser})

====
